---- MODULE Spec2Model ----
(***************************************************************************)
(* Model of stock_news_fetcher.py: the seen-set store (load_seen_news,     *)
(* save_seen_news) and the aggregation loop of main().                     *)
(*                                                                         *)
(* Python values are tagged records [t, v]; a news record is a record      *)
(* [shape, link, title, summary]; the seen-news file is a record           *)
(* [kind, top, items] describing what json.load finds in it.               *)
(***************************************************************************)
EXTENDS Naturals, Sequences, FiniteSets, TLC

(***************************************************************************)
(* Bounds of the model.                                                    *)
(***************************************************************************)
MaxTickers == 2
MaxItems == 2

(***************************************************************************)
(* Python / JSON values.                                                   *)
(***************************************************************************)
Str(s) == [t |-> "str", v |-> s]
None == [t |-> "none", v |-> ""]
\* a key that the mapping does not have (not a Python value)
Absent == [t |-> "absent", v |-> ""]
\* a JSON number, and a JSON array nested in an array (unhashable in Python)
Num(s) == [t |-> "num", v |-> s]
Nested == [t |-> "arr", v |-> ""]

\* 'data not available', the default of .get('link', ...) at line 73
Sentinel == Str("data not available")

\* Python truthiness of a title (None and '' are falsy)
Truthy(x) == ~(x.t = "none" \/ (x.t = "str" /\ x.v = ""))

\* dict.get(key) without a default: None when the key is absent
Get(x) == IF x = Absent THEN None ELSE x

\* dict.get(key, default)
GetOr(x, d) == IF x = Absent THEN d ELSE x

(***************************************************************************)
(* The seen-news file.                                                     *)
(***************************************************************************)
FileMissing == [kind |-> "missing", top |-> "", items |-> <<>>]
FileEmpty == [kind |-> "empty", top |-> "", items |-> <<>>]
FileGarbage == [kind |-> "garbage", top |-> "", items |-> <<>>]
JsonDoc(top, items) == [kind |-> "json", top |-> top, items |-> items]

Range(s) == {s[j] : j \in 1..Len(s)}

\* open() raises FileNotFoundError, json.load raises JSONDecodeError:
\* both are caught at line 19
LoadCaught(f) == f.kind \in {"missing", "empty", "garbage"}

\* set(json.load(f)) raises TypeError, which line 19 does not catch: the
\* document is not iterable, or an element of the array is unhashable
LoadRaises(f) ==
    /\ f.kind = "json"
    /\ \/ f.top \in {"num", "null", "bool"}
       \/ f.top = "arr" /\ \E j \in 1..Len(f.items) : f.items[j].t \in {"arr", "obj"}

\* the value load_seen_news returns when it returns
LoadResult(f) == IF LoadCaught(f) THEN {} ELSE Range(f.items)

\* list(seen_urls): the elements of the set in some order
RECURSIVE Orders(_)
Orders(S) ==
    IF S = {} THEN {<<>>}
    ELSE UNION {{<<x>> \o r : r \in Orders(S \ {x})} : x \in S}

\* Dump with the file opened in mode 'a': the array is written after what
\* the file holds, and two documents in a row do not parse
DumpAppend(old, lst) ==
    IF old.kind \in {"missing", "empty"} THEN JsonDoc("arr", lst) ELSE FileGarbage

\* the file json.dump(list(seen_urls), f) leaves after open(file_path, 'w')
Dump(old, lst) == JsonDoc("arr", lst)

(***************************************************************************)
(* Inputs of a run: the ticker list, what the news source returns and the  *)
(* content of the seen-news file when the run starts.                      *)
(***************************************************************************)
Symbols == {"AAPL", "MSFT"}
Links == {Absent, Str("u1")}
Titles == {Str(""), Str("t1")}
Summaries == {Str("s1")}

\* a record on which line 73 raises AttributeError (it is not a mapping, or its
\* 'content' is null or not a mapping); a record without 'content'; the
\* records whose 'content' is a mapping
Malformed == [shape |-> "malformed", link |-> Absent, title |-> Absent, summary |-> Absent]
NoContent == [shape |-> "nocontent", link |-> Absent, title |-> Absent, summary |-> Absent]
Articles ==
    {Malformed, NoContent} \cup
    [shape : {"ok"}, link : Links, title : Titles, summary : Summaries]

SeqsUpTo(S, n) == UNION {[1..m -> S] : m \in 0..n}
TickerLists == SeqsUpTo(Symbols, MaxTickers)
NewsLists == SeqsUpTo(Articles, MaxItems) \ {<<>>}

Files ==
    { FileMissing, FileEmpty, FileGarbage,
      JsonDoc("num", <<>>), JsonDoc("null", <<>>),
      JsonDoc("obj", <<Str("u1")>>),
      JsonDoc("arr", <<>>),
      JsonDoc("arr", <<Str("u1")>>),
      JsonDoc("arr", <<Str("u1"), Nested>>) }

(***************************************************************************)
(* The loop body of main(), lines 71-89, on one article.                   *)
(***************************************************************************)
\* article.get('content', {}) is a mapping, so that .get on it works
WellFormed(article) == article.shape \in {"ok", "nocontent"}

\* ArticleUrl reading the 'title' key instead of 'link'
ArticleUrlTitle(article) == GetOr(article.title, Sentinel)

\* line 73
ArticleUrl(article) == GetOr(article.link, Sentinel)

\* lines 80-84
ArticleData(article) == [title |-> Get(article.title), summary |-> Get(article.summary)]

EmptyBatch == [x \in {} |-> <<>>]

\* lines 77-78 and 86-87
AddArticle(b, ticker, article) ==
    LET b1 == IF ticker \in DOMAIN b THEN b
              ELSE [x \in DOMAIN b \cup {ticker} |-> IF x = ticker THEN <<>> ELSE b[x]]
    IN  IF Truthy(ArticleData(article).title)
        THEN [b1 EXCEPT ![ticker] = Append(@, ArticleData(article))]
        ELSE b1

\* MarkSeen moved under the if of line 86
MarkSeenIfTitled(seen, article) ==
    IF Truthy(ArticleData(article).title) THEN seen \cup {ArticleUrl(article)} ELSE seen

\* line 89
MarkSeen(seen, article) == seen \cup {ArticleUrl(article)}

\* the for loop of lines 71-89 over a whole list, left by the first record
\* that raises (the except of line 90 is outside the for)
RECURSIVE Collect(_, _, _)
Collect(b, ticker, lst) ==
    IF lst = <<>> \/ ~WellFormed(Head(lst)) THEN b
    ELSE Collect(AddArticle(b, ticker, Head(lst)), ticker, Tail(lst))

(***************************************************************************)
(* State of a run of main().                                               *)
(***************************************************************************)
VARIABLES
    pc,                          \* position in main()
    storage,                     \* content of SEEN_NEWS_FILE
    tickers,                     \* get_stock_tickers()
    idx,                         \* position of ticker_symbol in tickers
    news_list,                   \* the list the for of line 71 iterates (<<>> outside it)
    k,                           \* position of article in news_list (0 outside the for)
    seen_urls,
    all_new_articles_by_ticker,
    \* history variables
    loaded,                      \* what load_seen_news returned
    failed,                      \* tickers whose fetch raised
    fetched,                     \* tickers whose fetch returned
    titled,                      \* tickers for which a titled record was returned
    carried,                     \* links carried by the records returned
    linkless,                    \* some returned record carries no link
    expected,                    \* the batch of the run over the tickers whose fetch did not raise
    seen_alt,                    \* the same run started from an empty seen set
    batch_alt,
    saved,                       \* the set given to the last save_seen_news
    before                       \* what the file held before that save

vars == <<pc, storage, tickers, idx, news_list, k, seen_urls, all_new_articles_by_ticker,
          loaded, failed, fetched, titled, carried, linkless, expected, seen_alt, batch_alt,
          saved, before>>

store == <<storage, saved, before>>

hist == <<loaded, failed, fetched, titled, carried, linkless, expected>>

Init ==
    /\ pc = "start"
    /\ storage \in Files
    /\ tickers \in TickerLists
    /\ idx = 0
    /\ news_list = <<>>
    /\ k = 0
    /\ seen_urls = {}
    /\ all_new_articles_by_ticker = EmptyBatch
    /\ loaded = {}
    /\ failed = {}
    /\ fetched = {}
    /\ titled = {}
    /\ carried = {}
    /\ linkless = FALSE
    /\ expected = EmptyBatch
    /\ seen_alt = {}
    /\ batch_alt = EmptyBatch
    /\ saved = {}
    /\ before = {}

\* line 59: seen_urls = load_seen_news(SEEN_NEWS_FILE); a TypeError leaves main()
LoadSeen ==
    /\ pc = "start"
    /\ IF LoadRaises(storage)
       THEN /\ pc' = "raised"
            /\ UNCHANGED <<seen_urls, loaded, idx>>
       ELSE /\ pc' = "fetch"
            /\ seen_urls' = LoadResult(storage)
            /\ loaded' = LoadResult(storage)
            /\ idx' = 1
    /\ UNCHANGED <<store, tickers, news_list, k, all_new_articles_by_ticker,
                   failed, fetched, titled, carried, linkless, expected, seen_alt, batch_alt>>

\* FetchRaises with the try around the for of line 64: the loop is left
FetchRaisesAbort ==
    /\ pc = "fetch"
    /\ idx <= Len(tickers)
    /\ idx' = Len(tickers) + 1
    /\ failed' = failed \cup {tickers[idx]}
    /\ UNCHANGED <<pc, fetched, store, tickers, news_list, k, seen_urls, all_new_articles_by_ticker,
                   loaded, titled, carried, linkless, expected, seen_alt, batch_alt>>

\* line 66 raises; lines 90-91 catch it and the for of line 64 goes on
FetchRaises ==
    /\ pc = "fetch"
    /\ idx <= Len(tickers)
    /\ idx' = idx + 1
    /\ failed' = failed \cup {tickers[idx]}
    /\ UNCHANGED <<pc, fetched, store, tickers, news_list, k, seen_urls, all_new_articles_by_ticker,
                   loaded, titled, carried, linkless, expected, seen_alt, batch_alt>>

\* lines 66-67: news_list is None or empty: continue
FetchNothing ==
    /\ pc = "fetch"
    /\ idx <= Len(tickers)
    /\ idx' = idx + 1
    /\ fetched' = fetched \cup {tickers[idx]}
    /\ UNCHANGED <<pc, failed, store, tickers, news_list, k, seen_urls, all_new_articles_by_ticker,
                   loaded, titled, carried, linkless, expected, seen_alt, batch_alt>>

\* lines 66-71: a non-empty news_list; the for of line 71 starts
FetchNews ==
    /\ pc = "fetch"
    /\ idx <= Len(tickers)
    /\ \E lst \in NewsLists :
        /\ news_list' = lst
        /\ titled' = IF \E j \in 1..Len(lst) : Truthy(Get(lst[j].title))
                     THEN titled \cup {tickers[idx]} ELSE titled
        /\ carried' = carried \cup {lst[j].link : j \in {i \in 1..Len(lst) : lst[i].link # Absent}}
        /\ linkless' = (linkless \/ \E j \in 1..Len(lst) : WellFormed(lst[j]) /\ lst[j].link = Absent)
        /\ expected' = Collect(expected, tickers[idx], lst)
    /\ k' = 1
    /\ pc' = "items"
    /\ fetched' = fetched \cup {tickers[idx]}
    /\ UNCHANGED <<store, failed, tickers, idx, seen_urls, all_new_articles_by_ticker,
                   loaded, seen_alt, batch_alt>>

\* the for of line 71 is left: the for of line 64 takes the next ticker
NextTicker ==
    /\ pc' = "fetch"
    /\ idx' = idx + 1
    /\ news_list' = <<>>
    /\ k' = 0

\* the position after the body of line 71 ran on news_list[k]
AfterArticle ==
    IF k < Len(news_list)
    THEN /\ k' = k + 1
         /\ UNCHANGED <<pc, idx, news_list>>
    ELSE NextTicker

\* AddArticle on the articles whose url is not in the seen set
AddUnseen(b, seen, ticker, article) ==
    IF ArticleUrl(article) \in seen
    THEN IF ticker \in DOMAIN b THEN b
         ELSE [x \in DOMAIN b \cup {ticker} |-> IF x = ticker THEN <<>> ELSE b[x]]
    ELSE AddArticle(b, ticker, article)

\* ProcessArticle with the articles already seen filtered out
ProcessArticleDedup ==
    /\ pc = "items"
    /\ WellFormed(news_list[k])
    /\ all_new_articles_by_ticker' =
           AddUnseen(all_new_articles_by_ticker, seen_urls, tickers[idx], news_list[k])
    /\ seen_urls' = MarkSeen(seen_urls, news_list[k])
    /\ batch_alt' = AddUnseen(batch_alt, seen_alt, tickers[idx], news_list[k])
    /\ seen_alt' = MarkSeen(seen_alt, news_list[k])
    /\ AfterArticle
    /\ UNCHANGED <<store, tickers, hist>>

\* lines 73-89 on news_list[k]
ProcessArticle ==
    /\ pc = "items"
    /\ WellFormed(news_list[k])
    /\ all_new_articles_by_ticker' = AddArticle(all_new_articles_by_ticker, tickers[idx], news_list[k])
    /\ seen_urls' = MarkSeen(seen_urls, news_list[k])
    /\ batch_alt' = AddArticle(batch_alt, tickers[idx], news_list[k])
    /\ seen_alt' = MarkSeen(seen_alt, news_list[k])
    /\ AfterArticle
    /\ UNCHANGED <<store, tickers, hist>>

\* line 73 raises AttributeError on news_list[k]; lines 90-91 catch it, outside
\* the for of line 71: the rest of news_list is not visited
ArticleRaises ==
    /\ pc = "items"
    /\ ~WellFormed(news_list[k])
    /\ NextTicker
    /\ UNCHANGED <<store, tickers, seen_urls, all_new_articles_by_ticker,
                   hist, seen_alt, batch_alt>>

\* lines 94-96
NoNewArticles ==
    /\ pc = "fetch"
    /\ idx > Len(tickers)
    /\ DOMAIN all_new_articles_by_ticker = {}
    /\ pc' = "returned"
    /\ UNCHANGED <<store, tickers, idx, news_list, k, seen_urls, all_new_articles_by_ticker,
                   hist, seen_alt, batch_alt>>

\* lines 98-99; the save of line 126 is commented out
Report ==
    /\ pc = "fetch"
    /\ idx > Len(tickers)
    /\ DOMAIN all_new_articles_by_ticker # {}
    /\ pc' = "done"
    /\ UNCHANGED <<store, tickers, idx, news_list, k, seen_urls, all_new_articles_by_ticker,
                   hist, seen_alt, batch_alt>>

Next ==
    \/ LoadSeen
    \/ FetchRaises
    \/ FetchNothing
    \/ FetchNews
    \/ ProcessArticle
    \/ ArticleRaises
    \/ NoNewArticles
    \/ Report

Spec == Init /\ [][Next]_vars

(***************************************************************************)
(* The seen-set store on its own: save_seen_news and load_seen_news        *)
(* applied to sets of identifiers, from any content of the file.           *)
(***************************************************************************)
Ids == {Str("u1"), Str("u2"), Sentinel}

InitStore ==
    /\ pc = "store"
    /\ storage \in Files \cup {JsonDoc("arr", lst) : lst \in Orders(Ids)}
    /\ tickers = <<>>
    /\ idx = 0
    /\ news_list = <<>>
    /\ k = 0
    /\ seen_urls = {}
    /\ all_new_articles_by_ticker = EmptyBatch
    /\ loaded = {}
    /\ failed = {}
    /\ fetched = {}
    /\ titled = {}
    /\ carried = {}
    /\ linkless = FALSE
    /\ expected = EmptyBatch
    /\ seen_alt = {}
    /\ batch_alt = EmptyBatch
    /\ saved = {}
    /\ before = {}

loopv == <<tickers, idx, news_list, k, all_new_articles_by_ticker, hist, seen_alt, batch_alt>>

\* lines 23-27: save_seen_news(file_path, S)
SaveSeen ==
    /\ pc \in {"store", "saved", "reloaded", "resaved"}
    /\ \E S \in SUBSET Ids : \E lst \in Orders(S) :
        /\ storage' = Dump(storage, lst)
        /\ saved' = S
    /\ before' = IF LoadRaises(storage) THEN {} ELSE LoadResult(storage)
    /\ pc' = "saved"
    /\ UNCHANGED <<seen_urls, loopv>>

\* lines 10-21: load_seen_news(file_path)
LoadStore ==
    /\ pc \in {"store", "saved"}
    /\ IF LoadRaises(storage)
       THEN /\ pc' = "raised"
            /\ UNCHANGED seen_urls
       ELSE /\ pc' = IF pc = "saved" THEN "reloaded" ELSE "store"
            /\ seen_urls' = LoadResult(storage)
    /\ UNCHANGED <<store, loopv>>

\* save_seen_news(file_path, seen_urls) with the set load_seen_news returned
SaveLoaded ==
    /\ pc = "reloaded"
    /\ \E lst \in Orders(seen_urls) : storage' = Dump(storage, lst)
    /\ pc' = "resaved"
    /\ UNCHANGED <<seen_urls, saved, before, loopv>>

NextStore ==
    \/ SaveSeen
    \/ LoadStore
    \/ SaveLoaded

SpecStore == InitStore /\ [][NextStore]_vars

(***************************************************************************)
(* Properties.                                                             *)
(***************************************************************************)
AtEnd == pc \in {"returned", "done"}

Entry(b, t) == IF t \in DOMAIN b THEN b[t] ELSE <<>>

HasTitle(article) == article.title \notin {Absent, None, Str("")}

\* C1: at the end of the aggregation loop a ticker is a key of the batch if
\* and only if a record with a non-empty title was returned for it, and no
\* key maps to an empty list.
C1_KeyIffTitled ==
    AtEnd =>
        \A t \in Symbols :
            /\ t \in DOMAIN all_new_articles_by_ticker <=> t \in titled
            /\ t \in DOMAIN all_new_articles_by_ticker => all_new_articles_by_ticker[t] # <<>>

\* C2: a run that ends its aggregation with a non-empty batch has saved the
\* seen set: the next load_seen_news returns every identifier of seen_urls.
C2_SeenSetSaved ==
    pc = "done" => /\ ~LoadRaises(storage)
                   /\ seen_urls \subseteq LoadResult(storage)

\* C3: when no ticker returns a record with a non-empty title, the batch is
\* empty at the end of the run and main() returns at line 96.
C3_EmptyBatchShortCircuit ==
    (AtEnd /\ titled = {}) =>
        /\ DOMAIN all_new_articles_by_ticker = {}
        /\ pc = "returned"

\* C4: a fetch that raises does not end the run: main() does not raise, every
\* ticker of the list is still fetched, a ticker whose fetches all raised has
\* no entry, and the batch is the batch of the run over the other tickers.
C4_PartialFailureIsolation ==
    /\ failed # {} => pc # "raised"
    /\ (failed # {} /\ ~AtEnd) => ENABLED Next
    /\ AtEnd => failed \cup fetched = Range(tickers)
    /\ \A t \in failed \ fetched : t \notin DOMAIN all_new_articles_by_ticker
    /\ pc # "items" => all_new_articles_by_ticker = expected

\* a run of two tickers where the fetch of the first raised and the second
\* has its entry in the batch
C4_Witness ==
    /\ pc = "done"
    /\ Len(tickers) = 2
    /\ tickers[1] \in failed \ fetched
    /\ tickers[2] \in DOMAIN all_new_articles_by_ticker
    /\ all_new_articles_by_ticker[tickers[2]] # <<>>

\* C5: when the for of line 71 is left, every record of news_list on which
\* the body does not raise has been processed: its identifier is in
\* seen_urls and, if it has a title, it is in the entry of its ticker.
C5_MalformedRecordContained ==
    [][(pc = "items" /\ pc' = "fetch") =>
        \A j \in 1..Len(news_list) :
            WellFormed(news_list[j]) =>
                /\ GetOr(news_list[j].link, Sentinel) \in seen_urls'
                /\ HasTitle(news_list[j]) =>
                      ArticleData(news_list[j]) \in
                          Range(Entry(all_new_articles_by_ticker', tickers[idx]))]_vars

\* C6: the body of the loop adds the identifier of the record to seen_urls
\* whether or not the record has a title, and appends the record to the entry
\* of its ticker if and only if its title is non-empty; the batch holds no
\* record without a title.
C6_TitleGating ==
    /\ [](\A t \in DOMAIN all_new_articles_by_ticker :
            \A j \in 1..Len(all_new_articles_by_ticker[t]) :
                all_new_articles_by_ticker[t][j].title \notin {None, Str("")})
    /\ [][(pc = "items" /\ WellFormed(news_list[k])) =>
            /\ GetOr(news_list[k].link, Sentinel) \in seen_urls'
            /\ Entry(all_new_articles_by_ticker', tickers[idx]) =
                  IF HasTitle(news_list[k])
                  THEN Append(Entry(all_new_articles_by_ticker, tickers[idx]),
                              [title |-> news_list[k].title, summary |-> Get(news_list[k].summary)])
                  ELSE Entry(all_new_articles_by_ticker, tickers[idx])
            /\ \A t \in Symbols \ {tickers[idx]} :
                  Entry(all_new_articles_by_ticker', t) = Entry(all_new_articles_by_ticker, t)]_vars

\* the one record of AAPL, with link u1 and without a title, was processed
C6_Witness ==
    /\ pc = "done"
    /\ tickers = <<"AAPL">>
    /\ Str("u1") \in seen_urls \ loaded
    /\ all_new_articles_by_ticker["AAPL"] = <<>>

\* a JSON document that is not an array of strings, or no document
InvalidFile(f) ==
    \/ f.kind # "json"
    \/ f.top # "arr"
    \/ \E j \in 1..Len(f.items) : f.items[j].t # "str"

\* C7: load_seen_news never raises, and returns the empty set when the file
\* is missing, empty, not parseable or not an array of strings.
C7_LoadNeverRaises ==
    /\ pc # "raised"
    /\ (pc # "start" /\ InvalidFile(storage)) => loaded = {}

\* C8: load_seen_news after save_seen_news(S) returns S, whatever the file
\* held before, and saving the loaded set again leaves the identifiers of S
\* in the file.
C8_RoundTrip ==
    /\ pc = "reloaded" => seen_urls = saved
    /\ pc = "resaved" => /\ storage.kind = "json" /\ storage.top = "arr"
                         /\ Range(storage.items) = saved
    /\ pc = "saved" => ~LoadRaises(storage)

\* S was saved over a file that held an identifier not in S, and loaded
C8_Witness ==
    /\ pc = "reloaded"
    /\ saved # {}
    /\ before \ saved # {}
    /\ seen_urls = saved

\* S was saved, loaded and saved again
C8_WitnessResaved ==
    /\ pc = "resaved"
    /\ Cardinality(saved) = 2

\* C9: the batch does not depend on the seen set the run starts from: it is
\* the batch of the same run started from the empty seen set.
C9_BatchIndependentOfSeenSet ==
    all_new_articles_by_ticker = batch_alt

\* every record processed carried u1, which was loaded, and one was appended
C9_Witness ==
    /\ pc = "done"
    /\ loaded = {Str("u1")}
    /\ seen_urls = loaded
    /\ \E t \in DOMAIN all_new_articles_by_ticker : all_new_articles_by_ticker[t] # <<>>

\* C10 as stated: every member of seen_urls was loaded from the file or is
\* the link carried by a record returned in this run.
C10_SeenLoadedOrCarried ==
    seen_urls \subseteq loaded \cup carried

\* C10 amended: every member of seen_urls was loaded from the file, or is the
\* link carried by a record returned in this run, or is the placeholder
\* 'data not available', which only a record without a link adds.
C10_SeenLoadedCarriedOrPlaceholder ==
    /\ seen_urls \subseteq loaded \cup carried \cup {Sentinel}
    /\ Sentinel \in seen_urls \ loaded => linkless

\* the run added a carried link and the placeholder
C10_Witness ==
    /\ Str("u1") \in seen_urls \ loaded
    /\ Sentinel \in seen_urls \ loaded

====
